---- MODULE Spec2Model ----
(***************************************************************************)
(* Model of the recommendation service of app_full.py: the SQLite tables   *)
(* users, content, events and recommendation_logs, and the two handlers    *)
(* that change them, get_recommendations and log_event.  A handler runs    *)
(* without suspension up to its commit; its only await is the broadcast    *)
(* that follows the commit, so each handler is two steps: the work up to   *)
(* the await, and the return.                                              *)
(*                                                                         *)
(* Numbers.  Scores are exact rationals over ScoreDen: a contribution in   *)
(* 1/10000 is multiplied by the recency factor, a rational over 730, so a  *)
(* score s of the program is the integer s * 7300000 of the model.         *)
(* popularity_score is kept in hundredths (0.01 * COUNT is the count).     *)
(* Time is in days: the clock now, timestamps and created_at are day       *)
(* numbers, so (datetime.now() - created_at).days is now - created_at.     *)
(* reason_tags are kept as the list that ",".join writes to the log; the   *)
(* tags hold no comma.                                                     *)
(***************************************************************************)
EXTENDS Integers, Sequences, FiniteSets, TLC

VARIABLES users, content, events, recommendation_logs, now, call

vars == <<users, content, events, recommendation_logs, now, call>>

-----------------------------------------------------------------------------
(* Bounds of the model *)

\* content rows seeded
NumContent == 2
\* rows the events table can hold: ingestion stops there
MaxEvents == 2
\* recommendation requests are handled while the log has fewer rows
MaxLogs == 1
\* requests are taken while fewer calls are suspended in manager.broadcast
MaxInFlight == 2

\* the users seeded
UserIds == {1, 2}
ContentIds == 1..NumContent

\* an id that is in no table, for requests about a missing user or content
MissingId == 0

\* the days that pass between one event ingestion and the next
DayStep == 100

\* the draws of random.uniform(0, 0.1) the model makes, in 1/10000
JitterValues == {0, 999}

\* the user ids the recommendation requests carry
RecommendUsers == {1, MissingId}

\* the values of k the requests carry (Query ge=1, le=50)
KValues == {1, 50}

\* the event_type strings the ingestion requests carry
EventTypeInputs == {"view", "complete"}

\* the event_type strings of the requests of SpecIngest: the six known
\* types and one that is none of them
IngestTypeInputs ==
    {"view", "complete", "like", "quiz_score", "bookmark", "share", "purchase"}

\* the inputs of SpecScoring: the profile of user 1, the row of content 1,
\* its age in days and the events table
ScoreSkills == {"novice", "intermediate", "expert", "guru"}
ScoreInterests == {{}, {"python", "cloud"}, {"python", "cloud", "ai"}}
ScoreTags == {{"python", "ai"}, {"python", "cloud", "ai"}}
ScoreDifficulties == {"beginner", "intermediate", "advanced"}
ScorePopularities == {0, 40, 100}
ScoreAges == {-1, 0, 100, 1000}
ScoreEvents ==
    {<<>>,
     <<[user_id |-> 2, content_id |-> 1, event_type |-> "like", timestamp |-> -1]>>,
     <<[user_id |-> 1, content_id |-> 1, event_type |-> "view", timestamp |-> -2],
       [user_id |-> 2, content_id |-> 1, event_type |-> "like", timestamp |-> -1]>>,
     <<[user_id |-> 1, content_id |-> 1, event_type |-> "view", timestamp |-> -2],
       [user_id |-> 2, content_id |-> 1, event_type |-> "view", timestamp |-> -1]>>,
     <<[user_id |-> 1, content_id |-> 1, event_type |-> "view", timestamp |-> -3],
       [user_id |-> 2, content_id |-> 1, event_type |-> "complete", timestamp |-> -2],
       [user_id |-> 3, content_id |-> 1, event_type |-> "complete", timestamp |-> -1]>>}

\* the users of the tables of SpecScoring: the user scored and two peers
ScoreUserIds == {1, 2, 3}

-----------------------------------------------------------------------------
(* Constants of the program *)

ScoreDen == 7300000
TagWeight == 3000
DifficultyWeight == 200
PopularityWeight == 15
PeerBoost == 2000
YearDays == 365
PeerLimit == 10
MaxReasonTags == 3
MaxTagReasons == 2
\* random.sample(interests_pool, random.randint(1, 3)): the most tags of a
\* content row
MaxTags == 3
MODEL_VERSION == "v2.0.0"

Strategies == {"collaborative", "content_based", "hybrid"}
NULL == <<>>

\* event_types of seed_database: the types the seeded rows are drawn from
EventTypes == {"view", "complete", "like", "quiz_score", "bookmark", "share"}

-----------------------------------------------------------------------------
(* Seed data: seed_database *)

SeedInterests(u) ==
    IF u % 3 = 1 THEN {"python", "cloud"}
    ELSE IF u % 3 = 2 THEN {"ai", "cloud"}
    ELSE {"python", "ai"}

SeedSkill(u) ==
    IF u % 3 = 1 THEN "novice"
    ELSE IF u % 3 = 2 THEN "expert"
    ELSE "intermediate"

SeedTags(c) ==
    IF c % 3 = 1 THEN {"python", "cloud"}
    ELSE IF c % 3 = 2 THEN {"python", "cloud", "ai"}
    ELSE {"ai"}

\* random.uniform(0.0, 1.0), in hundredths
SeedPopularity(c) ==
    IF c % 3 = 1 THEN 100
    ELSE IF c % 3 = 2 THEN 90
    ELSE 0

SeedDifficulty(c) ==
    IF c % 3 = 0 THEN "advanced" ELSE "beginner"

\* the event tables the model seeds: one 'like' of user 2 or one 'complete'
\* of user 1, on the first content, stamped one day before the first request
SeedEvents ==
    {<<[user_id |-> 2, content_id |-> 1, event_type |-> "like",
        timestamp |-> 0 - 1]>>,
     <<[user_id |-> 1, content_id |-> 1, event_type |-> "complete",
        timestamp |-> 0 - 1]>>}

\* created_at of the seeded content, in days: the column default
\* CURRENT_TIMESTAMP is UTC and datetime.now() is local time.  In a zone at
\* or east of UTC the seeded rows are 0 days old at first (created_at 0);
\* west of UTC they are stamped ahead of the local clock and are -1 days
\* old at first (created_at 1)
SeedCreatedAts == {0, 1}

\* the content table as seeded, every row stamped created_at
SeedContent(created_at) ==
    [c \in ContentIds |->
        [tags |-> SeedTags(c), difficulty |-> SeedDifficulty(c),
         popularity_score |-> SeedPopularity(c), created_at |-> created_at]]

-----------------------------------------------------------------------------
(* Queries *)

Max(a, b) == IF a >= b THEN a ELSE b
Min(a, b) == IF a <= b THEN a ELSE b

\* variant: the lookup yields an empty row for a missing id
FetchUserBlank(tbl, user_id) ==
    IF user_id \in DOMAIN tbl THEN <<tbl[user_id]>>
    ELSE <<[skill_level |-> "", interests |-> {}, last_active |-> <<>>]>>

\* SELECT * FROM users WHERE user_id = ?  (fetchone: a row or None)
FetchUser(tbl, user_id) ==
    IF user_id \in DOMAIN tbl THEN <<tbl[user_id]>> ELSE NULL

\* variant: the lookup yields an empty row for a missing id
FetchContentBlank(tbl, content_id) ==
    IF content_id \in DOMAIN tbl THEN <<tbl[content_id]>>
    ELSE <<[tags |-> {}, difficulty |-> "", popularity_score |-> 0,
            created_at |-> 0]>>

\* SELECT content_id FROM content WHERE content_id = ?
FetchContent(tbl, content_id) ==
    IF content_id \in DOMAIN tbl THEN <<tbl[content_id]>> ELSE NULL

\* the indexes of the event rows a predicate selects
EventRows(evs, user_id, content_id, types) ==
    {i \in 1..Len(evs) : /\ evs[i].user_id = user_id
                         /\ evs[i].content_id = content_id
                         /\ evs[i].event_type \in types}

\* variant: the 'view' key is tested instead of 'complete'
CompletedViewed(evs, user_id, content_id) ==
    EventRows(evs, user_id, content_id, {"view"}) # {}

\* user_history[content_id] has a 'complete' key
Completed(evs, user_id, content_id) ==
    EventRows(evs, user_id, content_id, {"complete"}) # {}

\* COUNT(*) FROM events WHERE content_id = ?
EventCount(evs, content_id) ==
    Cardinality({i \in 1..Len(evs) : evs[i].content_id = content_id})

\* common_items of the self join: pairs (e1, e2) on the same content
CommonItems(evs, user_id, other) ==
    Cardinality({p \in (1..Len(evs)) \X (1..Len(evs)) :
                    /\ evs[p[1]].user_id = user_id
                    /\ evs[p[2]].user_id = other
                    /\ evs[p[1]].content_id = evs[p[2]].content_id})

\* the orders in which rows that tie on common_items come out of the
\* similar_users query.  ORDER BY names no second key, so the order of ties
\* is the query plan's: descending user_id under the plan SQLite chooses
\* for a database without statistics, ascending under the plan SQLite 3.40
\* chooses for a small table once sqlite_stat1 exists
TieOrders == {"ascending", "descending"}

RECURSIVE Digits(_)
\* the decimal digits of n as f"user_{n}" writes them
Digits(n) == IF n < 10 THEN <<n>> ELSE Append(Digits(n \div 10), n % 10)

RECURSIVE TextLeq(_, _)
\* a <= b for two digit strings compared as TEXT, character by character
TextLeq(a, b) ==
    IF a = <<>> THEN TRUE
    ELSE IF b = <<>> THEN FALSE
    ELSE IF a[1] # b[1] THEN a[1] < b[1]
    ELSE TextLeq(Tail(a), Tail(b))

\* user_id is a TEXT column holding f"user_{n}": user n sorts by the text
\* of n, so user_10 comes before user_2
UserIdLeq(v, w) == TextLeq(Digits(v), Digits(w))

\* COUNT(*) as common_items of every group
CommonCounts(evs, user_id, group) ==
    [v \in group |-> CommonItems(evs, user_id, v)]

RECURSIVE OrderPeersNumeric(_, _, _)
\* variant: the ties come in the order of the number in user_N
OrderPeersNumeric(count, group, tie) ==
    IF group = {} THEN <<>>
    ELSE LET best == CHOOSE v \in group : \A w \in group :
                        \/ count[v] > count[w]
                        \/ /\ count[v] = count[w]
                           /\ IF tie = "ascending" THEN v <= w ELSE w <= v
         IN <<best>> \o OrderPeersNumeric(count, group \ {best}, tie)

RECURSIVE OrderPeers(_, _, _)
\* ORDER BY common_items DESC over the groups, ties in the order tie
OrderPeers(count, group, tie) ==
    IF group = {} THEN <<>>
    ELSE LET best == CHOOSE v \in group : \A w \in group :
                        \/ count[v] > count[w]
                        \/ /\ count[v] = count[w]
                           /\ IF tie = "ascending" THEN UserIdLeq(v, w)
                              ELSE UserIdLeq(w, v)
         IN <<best>> \o OrderPeers(count, group \ {best}, tie)

\* variant: the query without the join on content_id, every other user
\* that has events is a peer
SimilarUsersUnjoined(evs, user_id, tie) ==
    LET group == {evs[i].user_id : i \in 1..Len(evs)} \ {user_id}
        ordered == OrderPeers(CommonCounts(evs, user_id, group), group, tie)
    IN SubSeq(ordered, 1, Min(Len(ordered), PeerLimit))

\* variant: the query without e2.user_id != ?
SimilarUsersBySelf(evs, user_id, tie) ==
    LET group == {evs[i].user_id : i \in 1..Len(evs)}
        count == CommonCounts(evs, user_id, group)
        joined == {v \in group : count[v] > 0}
        ordered == OrderPeers(count, joined, tie)
    IN SubSeq(ordered, 1, Min(Len(ordered), PeerLimit))

\* the similar_users query: JOIN ... GROUP BY e2.user_id ORDER BY
\* common_items DESC LIMIT 10, under a plan that orders ties as tie
SimilarUsersBy(evs, user_id, tie) ==
    LET group == {evs[i].user_id : i \in 1..Len(evs)} \ {user_id}
        count == CommonCounts(evs, user_id, group)
        joined == {v \in group : count[v] > 0}
        ordered == OrderPeers(count, joined, tie)
    IN SubSeq(ordered, 1, Min(Len(ordered), PeerLimit))

\* variant: event_type = 'like' instead of IN ('like', 'complete')
PeerLikedOnly(evs, user_id, content_id, tie) ==
    LET similar_users == SimilarUsersBy(evs, user_id, tie)
    IN \E i \in 1..Len(similar_users) :
          EventRows(evs, similar_users[i], content_id, {"like"}) # {}

\* the loop over similar_users: some peer has a like or complete on the content
PeerLiked(evs, user_id, content_id, tie) ==
    LET similar_users == SimilarUsersBy(evs, user_id, tie)
    IN \E i \in 1..Len(similar_users) :
          EventRows(evs, similar_users[i], content_id, {"like", "complete"}) # {}

\* variant: the peer check runs under every strategy
PeerSignalUngated(strategy, evs, user_id, content_id, tie) ==
    PeerLiked(evs, user_id, content_id, tie)

\* if strategy in ["collaborative", "hybrid"]: the peer check, on the
\* similar_users the query yields under a plan that orders ties as tie
PeerSignal(strategy, evs, user_id, content_id, tie) ==
    /\ strategy \in {"collaborative", "hybrid"}
    /\ PeerLiked(evs, user_id, content_id, tie)

-----------------------------------------------------------------------------
(* Scoring *)

\* variant: .get(difficulty, 0), a skill level outside the table counts 0
DifficultyMatchNoDefault(user_skill, difficulty) ==
    IF user_skill = "novice" /\ difficulty = "beginner" THEN 10
    ELSE IF user_skill = "novice" /\ difficulty = "intermediate" THEN 5
    ELSE IF user_skill = "novice" /\ difficulty = "advanced" THEN 2
    ELSE IF user_skill = "intermediate" /\ difficulty = "beginner" THEN 5
    ELSE IF user_skill = "intermediate" /\ difficulty = "intermediate" THEN 10
    ELSE IF user_skill = "intermediate" /\ difficulty = "advanced" THEN 7
    ELSE IF user_skill = "expert" /\ difficulty = "beginner" THEN 3
    ELSE IF user_skill = "expert" /\ difficulty = "intermediate" THEN 7
    ELSE IF user_skill = "expert" /\ difficulty = "advanced" THEN 10
    ELSE 0

\* difficulty_match.get(user_skill, {}).get(difficulty, 0.5), in tenths
DifficultyMatch(user_skill, difficulty) ==
    IF user_skill = "novice" /\ difficulty = "beginner" THEN 10
    ELSE IF user_skill = "novice" /\ difficulty = "intermediate" THEN 5
    ELSE IF user_skill = "novice" /\ difficulty = "advanced" THEN 2
    ELSE IF user_skill = "intermediate" /\ difficulty = "beginner" THEN 5
    ELSE IF user_skill = "intermediate" /\ difficulty = "intermediate" THEN 10
    ELSE IF user_skill = "intermediate" /\ difficulty = "advanced" THEN 7
    ELSE IF user_skill = "expert" /\ difficulty = "beginner" THEN 3
    ELSE IF user_skill = "expert" /\ difficulty = "intermediate" THEN 7
    ELSE IF user_skill = "expert" /\ difficulty = "advanced" THEN 10
    ELSE 5

\* variant: 1.0 - days_old / 365 without the floor
RecencyFactorNoFloor(days_old) == 2 * YearDays - 2 * days_old

\* max(0.5, 1.0 - days_old / 365), over 730
RecencyFactor(days_old) == Max(YearDays, 2 * YearDays - 2 * days_old)

\* variant: the popularity boost is left out
RawScoreNoPopularity(interests, user_skill, c, peer) ==
    Cardinality(interests \cap c.tags) * TagWeight
    + DifficultyMatch(user_skill, c.difficulty) * DifficultyWeight
    + (IF peer THEN PeerBoost ELSE 0)

\* variant: the overlap is capped at the number of tag reasons
RawScoreCapped(interests, user_skill, c, peer) ==
    Min(Cardinality(interests \cap c.tags), MaxTagReasons) * TagWeight
    + DifficultyMatch(user_skill, c.difficulty) * DifficultyWeight
    + c.popularity_score * PopularityWeight
    + (IF peer THEN PeerBoost ELSE 0)

\* the sum of the contributions before the recency step, in 1/10000
RawScore(interests, user_skill, c, peer) ==
    Cardinality(interests \cap c.tags) * TagWeight
    + DifficultyMatch(user_skill, c.difficulty) * DifficultyWeight
    + c.popularity_score * PopularityWeight
    + (IF peer THEN PeerBoost ELSE 0)

\* score *= recency_factor; score += random.uniform(0, 0.1), over ScoreDen
JitteredScore(raw, days_old, jitter) ==
    raw * RecencyFactor(days_old) + jitter * 2 * YearDays

\* variant: no upper clamp
ClampNone(score) == score

\* min(score, 1.0)
Clamp(score) == Min(score, ScoreDen)

RECURSIVE Orderings(_)
\* the orders in which list(set) can enumerate a set
Orderings(S) ==
    IF S = {} THEN {<<>>}
    ELSE UNION {{<<x>> \o t : t \in Orderings(S \ {x})} : x \in S}

Prefix(s, n) == SubSeq(s, 1, Min(Len(s), n))

\* variant: no fallback tag when no signal produced one
ReasonTagsNoFallback(overlap_list, peer) ==
    Prefix(Prefix(overlap_list, MaxTagReasons)
           \o (IF peer THEN <<"popular_with_similar_users">> ELSE <<>>),
           MaxReasonTags)

\* reason_tags of one candidate, given the enumeration order of the overlap
ReasonTags(overlap_list, peer) ==
    LET tags == Prefix(overlap_list, MaxTagReasons)
                \o (IF peer THEN <<"popular_with_similar_users">> ELSE <<>>)
    IN Prefix(IF tags = <<>> THEN <<"recommended_for_you">> ELSE tags,
              MaxReasonTags)

\* the records one content item can be scored to, over the random draws;
\* clamped records that min(score, 1.0) cut the sum, so that the float in
\* the record is exactly 1.0
Candidates(user, user_id, content_id, strategy, cont, evs, clock) ==
    LET c == cont[content_id]
        peers == {PeerSignal(strategy, evs, user_id, content_id, tie) :
                     tie \in TieOrders}
        days_old == clock - c.created_at
    IN {[content_id |-> content_id,
         score |-> Clamp(JitteredScore(
                      RawScore(user.interests, user.skill_level, c, peer),
                      days_old, jitter)),
         clamped |-> JitteredScore(
                        RawScore(user.interests, user.skill_level, c, peer),
                        days_old, jitter) > ScoreDen,
         reason_tags |-> ReasonTags(ord, peer),
         difficulty |-> c.difficulty]
        : peer \in peers, jitter \in JitterValues,
          ord \in Orderings(user.interests \cap c.tags)}

\* the local variables of one pass of the scoring loop, for one draw of the
\* jitter, one enumeration order of the overlap and one order of the tied
\* peers
Scored(user, user_id, content_id, strategy, cont, evs, clock, jitter, ord, tie) ==
    LET c == cont[content_id]
        peer == PeerSignal(strategy, evs, user_id, content_id, tie)
        raw == RawScore(user.interests, user.skill_level, c, peer)
        days_old == clock - c.created_at
    IN [content_id |-> content_id,
        strategy |-> strategy,
        tag_overlap |-> Cardinality(user.interests \cap c.tags),
        difficulty_match |-> DifficultyMatch(user.skill_level, c.difficulty),
        peer |-> peer,
        raw |-> raw,
        days_old |-> days_old,
        recency_factor |-> RecencyFactor(days_old),
        decayed |-> raw * RecencyFactor(days_old),
        jitter |-> jitter,
        ord |-> ord,
        tie |-> tie,
        score |-> Clamp(JitteredScore(raw, days_old, jitter)),
        clamped |-> JitteredScore(raw, days_old, jitter) > ScoreDen,
        reason_tags |-> ReasonTags(ord, peer),
        difficulty |-> c.difficulty]

RECURSIVE ScoredLists(_, _, _, _, _, _, _)
\* the lists the loop over all_content can build, content ids from..NumContent
ScoredLists(from, user, user_id, strategy, cont, evs, clock) ==
    IF from > NumContent THEN {<<>>}
    ELSE LET rest == ScoredLists(from + 1, user, user_id, strategy, cont, evs, clock)
         IN IF Completed(evs, user_id, from) THEN rest
            ELSE {<<r>> \o t :
                    r \in Candidates(user, user_id, from, strategy, cont, evs, clock),
                    t \in rest}

-----------------------------------------------------------------------------
(* Ranking *)

\* variant: the list is left in scoring order
SortSkipped(s) == {s}

\* whether the sort can leave entry x in front of entry y, where later says
\* that x was appended after y.  The scores are floats: a score that min()
\* cut is exactly 1.0, any other lies within rounding of the exact sum, so
\* of two entries with equal sums either can hold the larger float, unless
\* the earlier one holds 1.0, which no float in the list exceeds.  Equal
\* floats keep the order of appending.
MayPrecede(x, y, later) ==
    \/ x.score > y.score
    \/ x.score = y.score /\ (later => ~y.clamped)

\* recommendations.sort(key=score, reverse=True): the orders the stable
\* descending sort can leave the list in
SortDesc(s) ==
    LET n == Len(s)
        perms == {p \in [1..n -> 1..n] :
                     \A i, j \in 1..n : i # j => p[i] # p[j]}
        sorted == {p \in perms :
                     \A i, j \in 1..n :
                        i < j => MayPrecede(s[p[i]], s[p[j]], p[i] > p[j])}
    IN {[i \in 1..n |-> s[p[i]]] : p \in sorted}

\* variant: recommendations[:k + 1]
TopKPlusOne(s, k) == Prefix(s, k + 1)

\* recommendations[:k]
TopK(s, k) == Prefix(s, k)

-----------------------------------------------------------------------------
(* Logging *)

LogRow(user_id, r) ==
    [user_id |-> user_id, content_id |-> r.content_id, score |-> r.score,
     model_version |-> MODEL_VERSION, reason_tags |-> r.reason_tags,
     clicked |-> FALSE]

\* variant: only the first recommendation is logged
LogRowsFirstOnly(user_id, top_recs) ==
    [i \in 1..Min(Len(top_recs), 1) |-> LogRow(user_id, top_recs[i])]

\* the rows the INSERT loop writes, one per entry of top_recs
LogRows(user_id, top_recs) ==
    [i \in 1..Len(top_recs) |-> LogRow(user_id, top_recs[i])]

\* variant: the rows of the request replace the rows of the table
CommittedReplacing(logs, rows, insert_error) ==
    IF insert_error = 0 THEN rows ELSE logs

\* variant: every INSERT is committed on its own
CommittedEach(logs, rows, insert_error) ==
    IF insert_error = 0 THEN logs \o rows
    ELSE logs \o SubSeq(rows, 1, insert_error - 1)

\* the table after the INSERT loop: the rows are in one transaction that
\* conn.commit() ends; an INSERT that raises (insert_error = its index in
\* the loop, 0 for none) leaves the handler before the commit
Committed(logs, rows, insert_error) ==
    IF insert_error = 0 THEN logs \o rows ELSE logs

-----------------------------------------------------------------------------
(* The state *)
(* users, content, events, recommendation_logs: the tables.  now: the      *)
(* clock.  call: the handler call that took the last step, with its local  *)
(* variables; pc is "broadcast" while the call is suspended in             *)
(* manager.broadcast and "done" once it has returned or raised, status is  *)
(* the HTTP status of the response (0 before there is one).  A handler     *)
(* runs without interruption up to its await; while it is suspended there  *)
(* the event loop takes further requests: call.suspended holds the calls   *)
(* that were suspended when the call of the last step began, in the order  *)
(* in which they reached their await.                                      *)

NoCall == [handler |-> "none", pc |-> "done", status |-> 0,
           suspended |-> <<>>]

\* the calls that stand at their await of manager.broadcast
InFlight ==
    call.suspended
    \o (IF call.pc = "broadcast" THEN <<[call EXCEPT !.suspended = <<>>]>>
        ELSE <<>>)

\* the calls that stay suspended when the i-th of them is resumed
StillSuspended(i) ==
    SubSeq(InFlight, 1, i - 1) \o SubSeq(InFlight, i + 1, Len(InFlight))

\* the await of manager.broadcast of the i-th suspended call completes and
\* the call returns its response
Resumed(i) ==
    [InFlight[i] EXCEPT !.pc = "done", !.status = 200,
                        !.suspended = StillSuspended(i)]

\* the seeded tables: last_active is not set, created_at is the column
\* default
Init ==
    /\ content \in {SeedContent(created_at) : created_at \in SeedCreatedAts}
    /\ users = [u \in UserIds |->
                   [skill_level |-> SeedSkill(u), interests |-> SeedInterests(u),
                    last_active |-> NULL]]
    /\ events \in SeedEvents
    /\ recommendation_logs = <<>>
    /\ now = 0
    /\ call = NoCall

-----------------------------------------------------------------------------
(* get_recommendations *)

\* the handler up to the await of manager.broadcast: the user lookup, the
\* scoring loop, the sort, the INSERT loop and the commit.  events_read is
\* the events table as the SELECTs of the call found it.
Recommend(user_id, k, strategy) ==
    /\ Len(InFlight) < MaxInFlight
    /\ LET row == FetchUser(users, user_id)
       IN IF row = NULL
          THEN /\ call' = [handler |-> "get_recommendations", pc |-> "done",
                           status |-> 404, user_id |-> user_id,
                           recommendations |-> <<>>,
                           suspended |-> InFlight]
               /\ UNCHANGED recommendation_logs
          ELSE \E scored \in ScoredLists(1, row[1], user_id, strategy,
                                         content, events, now) :
               \E recommendations \in SortDesc(scored) :
                 LET top_recs == TopK(recommendations, k)
                 IN \E insert_error \in 0..Len(top_recs) :
                      /\ recommendation_logs' =
                            Committed(recommendation_logs,
                                      LogRows(user_id, top_recs), insert_error)
                      /\ IF insert_error = 0
                         THEN call' = [handler |-> "get_recommendations",
                                       pc |-> "broadcast", status |-> 0,
                                       user_id |-> user_id, k |-> k,
                                       recommendations |-> recommendations,
                                       top_recs |-> top_recs,
                                       log_base |-> Len(recommendation_logs),
                                       events_read |-> events,
                                       suspended |-> InFlight]
                         ELSE call' = [handler |-> "get_recommendations",
                                       pc |-> "done", status |-> 500,
                                       user_id |-> user_id,
                                       insert_error |-> insert_error,
                                       suspended |-> InFlight]
    /\ UNCHANGED <<users, content, events, now>>

\* a request is taken while the log holds fewer than MaxLogs rows
GetRecommendations(user_id, k, strategy) ==
    /\ Len(recommendation_logs) < MaxLogs
    /\ Recommend(user_id, k, strategy)

\* the broadcast of a suspended call has been awaited and its response is
\* returned
RecommendReturn ==
    /\ \E i \in 1..Len(InFlight) :
          /\ InFlight[i].handler = "get_recommendations"
          /\ call' = Resumed(i)
    /\ UNCHANGED <<users, content, events, recommendation_logs, now>>

-----------------------------------------------------------------------------
(* log_event *)

Event(user_id, content_id, event_type, timestamp) ==
    [user_id |-> user_id, content_id |-> content_id,
     event_type |-> event_type, timestamp |-> timestamp]

\* variant: UPDATE users SET last_active = ? without the WHERE clause
UpdateLastActiveAll(tbl, user_id, timestamp) ==
    [u \in DOMAIN tbl |-> [tbl[u] EXCEPT !.last_active = <<timestamp>>]]

\* UPDATE users SET last_active = ? WHERE user_id = ?
UpdateLastActive(tbl, user_id, timestamp) ==
    [u \in DOMAIN tbl |->
        IF u = user_id THEN [tbl[u] EXCEPT !.last_active = <<timestamp>>]
        ELSE tbl[u]]

\* variant: popularity_score = popularity_score + 0.01
UpdatePopularityIncrement(tbl, evs, content_id) ==
    [c \in DOMAIN tbl |->
        IF c = content_id
        THEN [tbl[c] EXCEPT !.popularity_score = tbl[c].popularity_score + 1]
        ELSE tbl[c]]

\* UPDATE content SET popularity_score = (SELECT COUNT(*) * 0.01 ...)
UpdatePopularity(tbl, evs, content_id) ==
    [c \in DOMAIN tbl |->
        IF c = content_id
        THEN [tbl[c] EXCEPT !.popularity_score = EventCount(evs, content_id)]
        ELSE tbl[c]]

\* the handler up to the await of manager.broadcast; the request is handled
\* DayStep days after the previous ingestion, also while earlier calls are
\* suspended in their broadcast
LogEvent(user_id, content_id, event_type) ==
    /\ Len(InFlight) < MaxInFlight
    /\ IF FetchUser(users, user_id) = NULL
       THEN /\ call' = [handler |-> "log_event", pc |-> "done", status |-> 404,
                        detail |-> "User not found",
                        user_id |-> user_id, content_id |-> content_id,
                        suspended |-> InFlight]
            /\ UNCHANGED <<users, content, events, now>>
       ELSE IF FetchContent(content, content_id) = NULL
       THEN /\ call' = [handler |-> "log_event", pc |-> "done", status |-> 404,
                        detail |-> "Content not found",
                        user_id |-> user_id, content_id |-> content_id,
                        suspended |-> InFlight]
            /\ UNCHANGED <<users, content, events, now>>
       ELSE /\ Len(events) < MaxEvents
            /\ now' = now + DayStep
            /\ events' = Append(events,
                                Event(user_id, content_id, event_type, now'))
            /\ users' = UpdateLastActive(users, user_id, now')
            /\ content' = UpdatePopularity(content, events', content_id)
            /\ call' = [handler |-> "log_event", pc |-> "broadcast",
                        status |-> 0, user_id |-> user_id,
                        content_id |-> content_id, event_type |-> event_type,
                        timestamp |-> now', suspended |-> InFlight]
    /\ UNCHANGED recommendation_logs

\* the broadcast of a suspended call has been awaited and its response is
\* returned
LogEventReturn ==
    /\ \E i \in 1..Len(InFlight) :
          /\ InFlight[i].handler = "log_event"
          /\ call' = Resumed(i)
    /\ UNCHANGED <<users, content, events, recommendation_logs, now>>

-----------------------------------------------------------------------------

Next ==
    \/ \E user_id \in RecommendUsers, k \in KValues, strategy \in Strategies :
          GetRecommendations(user_id, k, strategy)
    \/ RecommendReturn
    \/ \E user_id \in UserIds \cup {MissingId},
          content_id \in ContentIds \cup {MissingId},
          event_type \in EventTypeInputs :
             LogEvent(user_id, content_id, event_type)
    \/ LogEventReturn

Spec == Init /\ [][Next]_vars

-----------------------------------------------------------------------------
(* Event ingestion alone, over every event_type string of IngestTypeInputs: *)
(* EventCreate declares event_type: str with no validator, so the handler  *)
(* is entered with any string.                                             *)

NextIngest ==
    \/ \E user_id \in UserIds \cup {MissingId},
          content_id \in ContentIds \cup {MissingId},
          event_type \in IngestTypeInputs :
             LogEvent(user_id, content_id, event_type)
    \/ LogEventReturn

SpecIngest == Init /\ [][NextIngest]_vars

-----------------------------------------------------------------------------
(* Both handlers on tables that earlier requests have written: the seeded   *)
(* event has been ingested by log_event, so its user has a last_active and  *)
(* its content a recomputed popularity_score, and recommendation requests   *)
(* are taken while the log already holds rows.                              *)

\* the tables after log_event has ingested the seeded event
InitFrame ==
    /\ events \in SeedEvents
    /\ \E created_at \in SeedCreatedAts :
          content = UpdatePopularity(SeedContent(created_at), events,
                                     events[1].content_id)
    /\ users = UpdateLastActive(
                  [u \in UserIds |->
                      [skill_level |-> SeedSkill(u),
                       interests |-> SeedInterests(u), last_active |-> NULL]],
                  events[1].user_id, events[1].timestamp)
    /\ recommendation_logs = <<>>
    /\ now = 0
    /\ call = NoCall

\* a request is taken while the log holds at most MaxLogs rows, so that a
\* request follows one that has written rows
FrameRecommend(user_id, k, strategy) ==
    /\ Len(recommendation_logs) <= MaxLogs
    /\ Recommend(user_id, k, strategy)

NextFrame ==
    \/ FrameRecommend(1, 1, "hybrid")
    \/ RecommendReturn
    \/ \E user_id \in UserIds, content_id \in ContentIds :
          LogEvent(user_id, content_id, "view")
    \/ LogEventReturn

SpecFrame == InitFrame /\ [][NextFrame]_vars

-----------------------------------------------------------------------------
(* One pass of the scoring loop of get_recommendations, for user 1 and      *)
(* content 1, over profiles, content rows, ages and event tables that the  *)
(* seeds of Init do not hold.  call keeps the local variables of the pass. *)

InitScore ==
    /\ \E skill \in ScoreSkills, interests \in ScoreInterests :
          users = [u \in ScoreUserIds |->
                      IF u = 1
                      THEN [skill_level |-> skill, interests |-> interests,
                            last_active |-> NULL]
                      ELSE [skill_level |-> SeedSkill(u),
                            interests |-> SeedInterests(u),
                            last_active |-> NULL]]
    /\ \E tags \in ScoreTags, difficulty \in ScoreDifficulties,
          popularity \in ScorePopularities, age \in ScoreAges :
          content = [c \in ContentIds |->
                        IF c = 1
                        THEN [tags |-> tags, difficulty |-> difficulty,
                              popularity_score |-> popularity,
                              created_at |-> 0 - age]
                        ELSE [tags |-> SeedTags(c),
                              difficulty |-> SeedDifficulty(c),
                              popularity_score |-> SeedPopularity(c),
                              created_at |-> 0 - age]]
    /\ events \in ScoreEvents
    /\ recommendation_logs = <<>>
    /\ now = 0
    /\ call = [handler |-> "score", pc |-> "input", status |-> 0]

\* the body of the loop over all_content for one content row that the user
\* has not completed
ScoreCandidate(user_id, content_id, strategy) ==
    /\ call.handler = "score"
    /\ call.pc = "input"
    /\ ~Completed(events, user_id, content_id)
    /\ LET user == FetchUser(users, user_id)[1]
       IN \E jitter \in JitterValues, tie \in TieOrders,
             ord \in Orderings(user.interests \cap content[content_id].tags) :
             LET s == Scored(user, user_id, content_id, strategy, content,
                             events, now, jitter, ord, tie)
             IN /\ [content_id |-> s.content_id, score |-> s.score,
                     clamped |-> s.clamped,
                     reason_tags |-> s.reason_tags,
                     difficulty |-> s.difficulty]
                       \in Candidates(user, user_id, content_id, strategy,
                                      content, events, now)
                /\ call' = [handler |-> "score", pc |-> "done", status |-> 0,
                            user_id |-> user_id, scored |-> s]
    /\ UNCHANGED <<users, content, events, recommendation_logs, now>>

NextScore == \E strategy \in Strategies : ScoreCandidate(1, 1, strategy)

SpecScoring == InitScore /\ [][NextScore]_vars

-----------------------------------------------------------------------------
(* The similar_users query alone, run twice on the same events table (the  *)
(* scoring loop runs it once for every candidate), over tables with users  *)
(* that tie on common_items and with more than PeerLimit peers.  The order  *)
(* SQLite returns tied groups in comes with the plan of the query, which   *)
(* the application never changes (it runs no ANALYZE and creates no index  *)
(* after init_db): it is drawn once per database.                          *)

\* the users of the tables of SpecPeers: enough to exceed LIMIT 10
PeerUserIds == 1..(PeerLimit + 4)

PeerView(user_id, content_id) ==
    [user_id |-> user_id, content_id |-> content_id, event_type |-> "view",
     timestamp |-> -1]

\* the tables of up to two rows over three users
SmallPeerEvents ==
    LET rows == {PeerView(u, c) : u \in {1, 2, 3}, c \in ContentIds}
    IN {<<>>} \cup {<<r>> : r \in rows} \cup {<<r, t>> : r \in rows, t \in rows}

\* user 1 has viewed contents 1 and 2, every other user has viewed content
\* 1 and the last one content 2 as well: PeerLimit + 3 peers, all but one
\* tied
BoundaryPeerEvents ==
    <<PeerView(1, 1), PeerView(1, 2)>>
    \o [i \in 1..(PeerLimit + 3) |-> PeerView(i + 1, 1)]
    \o <<PeerView(PeerLimit + 4, 2)>>

PeerEventLists == SmallPeerEvents \cup {BoundaryPeerEvents}

InitPeers ==
    /\ users = [u \in PeerUserIds |->
                   [skill_level |-> SeedSkill(u), interests |-> SeedInterests(u),
                    last_active |-> NULL]]
    /\ content \in {SeedContent(created_at) : created_at \in SeedCreatedAts}
    /\ events \in PeerEventLists
    /\ recommendation_logs = <<>>
    /\ now = 0
    /\ \E tie \in TieOrders :
          call = [handler |-> "peers", pc |-> "input", status |-> 0,
                  tie |-> tie]

\* the query is run for user_id
FindPeers(user_id) ==
    /\ call.handler = "peers"
    /\ call.pc = "input"
    /\ call' = [handler |-> "peers", pc |-> "again", status |-> 0,
                tie |-> call.tie, user_id |-> user_id,
                similar_users |-> SimilarUsersBy(events, user_id, call.tie),
                again |-> <<>>]
    /\ UNCHANGED <<users, content, events, recommendation_logs, now>>

\* the query is run once more for the same user on the same table, on the
\* same connection settings and the same query plan
FindPeersAgain ==
    /\ call.handler = "peers"
    /\ call.pc = "again"
    /\ call' = [call EXCEPT !.pc = "done",
                            !.again = SimilarUsersBy(events, call.user_id,
                                                     call.tie)]
    /\ UNCHANGED <<users, content, events, recommendation_logs, now>>

NextPeers ==
    \/ \E user_id \in {1, 2, 3} : FindPeers(user_id)
    \/ FindPeersAgain

SpecPeers == InitPeers /\ [][NextPeers]_vars

-----------------------------------------------------------------------------
(* Two log_event requests in flight, each on its own connection (get_db   *)
(* opens one per request), stepping statement by statement.  The handler   *)
(* has no await before its commit, so under one event loop the statements  *)
(* of a request run without interleaving; statement steps cover several    *)
(* server processes on one database file.  SQLite's file locks:            *)
(*   - a SELECT that has found a row holds the shared lock from            *)
(*     cursor.execute to fetchone; one that finds no row ends in execute;  *)
(*   - call.lock is the request whose connection holds the write lock,     *)
(*     taken by its INSERT and released by its commit (0 when free);       *)
(*   - conn.commit() needs the exclusive lock and waits for the other      *)
(*     connection's read to end;                                           *)
(*   - a statement that waits longer than the busy timeout of              *)
(*     sqlite3.connect (5 s) raises OperationalError 'database is locked': *)
(*     the handler does not catch it, the response is 500 and the          *)
(*     transaction of the connection is rolled back.                       *)
(* A wait is a disabled action; the timeout is an action of its own,       *)
(* enabled while the wait lasts.  The writes of the lock holder are made   *)
(* in place and call.journal holds the tables as committed, for the        *)
(* rollback; the other request reads users and content only to see         *)
(* whether a row exists.                                                   *)

Requests == {1, 2}

\* no write transaction is open
NoJournal == <<>>

InitConcurrent ==
    /\ content \in {SeedContent(created_at) : created_at \in SeedCreatedAts}
    /\ users = [u \in UserIds |->
                   [skill_level |-> SeedSkill(u), interests |-> SeedInterests(u),
                    last_active |-> NULL]]
    /\ events \in SeedEvents
    /\ recommendation_logs = <<>>
    /\ now = 0
    /\ \E reqs \in [Requests ->
                     [pc : {"start"}, status : {0}, user_id : UserIds,
                      content_id : ContentIds \cup {MissingId},
                      event_type : {"view"}, timestamp : {0}]] :
          call = [handler |-> "log_event_pair", pc |-> "run", status |-> 0,
                  lock |-> 0, journal |-> NoJournal, reqs |-> reqs]

\* the connection of request r holds the shared lock: a SELECT of its has
\* found a row and fetchone has not been called
ReadOpen(r) ==
    LET req == call.reqs[r]
    IN \/ req.pc = "fetch_user" /\ FetchUser(users, req.user_id) # NULL
       \/ req.pc = "fetch_content" /\ FetchContent(content, req.content_id) # NULL

\* timestamp = datetime.now() and cursor.execute of the SELECT on users
IngestSelectUser(r) ==
    LET req == call.reqs[r]
    IN /\ call.handler = "log_event_pair"
       /\ req.pc = "start"
       /\ now' = now + DayStep
       /\ call' = [call EXCEPT !.reqs[r].pc = "fetch_user",
                               !.reqs[r].timestamp = now']
       /\ UNCHANGED <<users, content, events, recommendation_logs>>

\* if not cursor.fetchone(): 404 User not found
IngestFetchUser(r) ==
    LET req == call.reqs[r]
    IN /\ call.handler = "log_event_pair"
       /\ req.pc = "fetch_user"
       /\ IF FetchUser(users, req.user_id) = NULL
          THEN call' = [call EXCEPT !.reqs[r].pc = "done",
                                    !.reqs[r].status = 404]
          ELSE call' = [call EXCEPT !.reqs[r].pc = "select_content"]
       /\ UNCHANGED <<users, content, events, recommendation_logs, now>>

\* cursor.execute of the SELECT on content
IngestSelectContent(r) ==
    LET req == call.reqs[r]
    IN /\ call.handler = "log_event_pair"
       /\ req.pc = "select_content"
       /\ call' = [call EXCEPT !.reqs[r].pc = "fetch_content"]
       /\ UNCHANGED <<users, content, events, recommendation_logs, now>>

\* if not cursor.fetchone(): 404 Content not found
IngestFetchContent(r) ==
    LET req == call.reqs[r]
    IN /\ call.handler = "log_event_pair"
       /\ req.pc = "fetch_content"
       /\ IF FetchContent(content, req.content_id) = NULL
          THEN call' = [call EXCEPT !.reqs[r].pc = "done",
                                    !.reqs[r].status = 404]
          ELSE call' = [call EXCEPT !.reqs[r].pc = "insert"]
       /\ UNCHANGED <<users, content, events, recommendation_logs, now>>

\* INSERT INTO events: opens the write transaction of the connection; it
\* waits while the other connection holds the write lock
IngestInsert(r) ==
    LET req == call.reqs[r]
    IN /\ call.handler = "log_event_pair"
       /\ req.pc = "insert"
       /\ call.lock = 0
       /\ events' = Append(events, Event(req.user_id, req.content_id,
                                         req.event_type, req.timestamp))
       /\ call' = [call EXCEPT
                      !.lock = r,
                      !.journal = [users |-> users, content |-> content,
                                   events |-> events],
                      !.reqs[r].pc = "last_active"]
       /\ UNCHANGED <<users, content, recommendation_logs, now>>

\* the INSERT has waited for the write lock longer than the busy timeout:
\* OperationalError, the response is 500 and nothing is written
IngestInsertLocked(r) ==
    LET req == call.reqs[r]
    IN /\ call.handler = "log_event_pair"
       /\ req.pc = "insert"
       /\ call.lock \notin {0, r}
       /\ call' = [call EXCEPT !.reqs[r].pc = "done", !.reqs[r].status = 500]
       /\ UNCHANGED <<users, content, events, recommendation_logs, now>>

\* UPDATE users SET last_active
IngestLastActive(r) ==
    LET req == call.reqs[r]
    IN /\ call.handler = "log_event_pair"
       /\ req.pc = "last_active"
       /\ users' = UpdateLastActive(users, req.user_id, req.timestamp)
       /\ call' = [call EXCEPT !.reqs[r].pc = "popularity"]
       /\ UNCHANGED <<content, events, recommendation_logs, now>>

\* UPDATE content SET popularity_score = (SELECT COUNT(*) * 0.01 ...): one
\* statement, which counts the committed rows and the row of its own
\* transaction
IngestPopularity(r) ==
    LET req == call.reqs[r]
    IN /\ call.handler = "log_event_pair"
       /\ req.pc = "popularity"
       /\ content' = UpdatePopularity(content, events, req.content_id)
       /\ call' = [call EXCEPT !.reqs[r].pc = "commit"]
       /\ UNCHANGED <<users, events, recommendation_logs, now>>

\* conn.commit(): it waits while the other connection has a read open;
\* the write lock is released
IngestCommit(r) ==
    LET req == call.reqs[r]
    IN /\ call.handler = "log_event_pair"
       /\ req.pc = "commit"
       /\ \A o \in Requests \ {r} : ~ReadOpen(o)
       /\ call' = [call EXCEPT !.lock = 0, !.journal = NoJournal,
                               !.reqs[r].pc = "broadcast"]
       /\ UNCHANGED <<users, content, events, recommendation_logs, now>>

\* conn.commit() has waited for the other connection's read longer than the
\* busy timeout: OperationalError, the response is 500 and the INSERT and
\* the UPDATEs of the request are rolled back
IngestCommitLocked(r) ==
    LET req == call.reqs[r]
    IN /\ call.handler = "log_event_pair"
       /\ req.pc = "commit"
       /\ \E o \in Requests \ {r} : ReadOpen(o)
       /\ users' = call.journal.users
       /\ content' = call.journal.content
       /\ events' = call.journal.events
       /\ call' = [call EXCEPT !.lock = 0, !.journal = NoJournal,
                               !.reqs[r].pc = "done", !.reqs[r].status = 500]
       /\ UNCHANGED <<recommendation_logs, now>>

\* the broadcast has been awaited and the response is returned
IngestReturn(r) ==
    LET req == call.reqs[r]
    IN /\ call.handler = "log_event_pair"
       /\ req.pc = "broadcast"
       /\ call' = [call EXCEPT !.reqs[r].pc = "done", !.reqs[r].status = 200]
       /\ UNCHANGED <<users, content, events, recommendation_logs, now>>

NextConcurrent ==
    \E r \in Requests :
       \/ IngestSelectUser(r)
       \/ IngestFetchUser(r)
       \/ IngestSelectContent(r)
       \/ IngestFetchContent(r)
       \/ IngestInsert(r)
       \/ IngestInsertLocked(r)
       \/ IngestLastActive(r)
       \/ IngestPopularity(r)
       \/ IngestCommit(r)
       \/ IngestCommitLocked(r)
       \/ IngestReturn(r)

\* every request that can take a step eventually takes one
SpecConcurrent ==
    InitConcurrent /\ [][NextConcurrent]_vars /\ WF_vars(NextConcurrent)

-----------------------------------------------------------------------------
(* ConnectionManager: one broadcast and the clients that connect and       *)
(* disconnect around it.  call holds active_connections and the loop of    *)
(* broadcast: index is the position of the list iterator (the number of    *)
(* entries it has yielded), current the connection whose send_json is      *)
(* awaited, attempts the number of sends begun per connection, raised the  *)
(* connections whose send raised, steady the connections that were in the  *)
(* list when the broadcast began and have not been removed since, ever the *)
(* websockets that have connected.  The loop is suspended only in          *)
(* send_json, so connect and disconnect run before the broadcast, while a  *)
(* send is awaited, or after the loop has ended.                           *)

\* the websockets that may connect
NumConns == 3
ConnIds == 1..NumConns

\* list.remove(x): the list without the first entry equal to x
Remove(list, x) ==
    LET first == CHOOSE i \in 1..Len(list) :
                    /\ list[i] = x
                    /\ \A j \in 1..(i - 1) : list[j] # x
    IN SubSeq(list, 1, first - 1) \o SubSeq(list, first + 1, Len(list))

InitBroadcast ==
    /\ users = <<>>
    /\ content = <<>>
    /\ events = <<>>
    /\ recommendation_logs = <<>>
    /\ now = 0
    /\ call = [handler |-> "broadcast", pc |-> "idle", status |-> 0,
               active_connections |-> <<>>, index |-> 0, current |-> 0,
               attempts |-> [c \in ConnIds |-> 0], raised |-> {},
               steady |-> {}, ever |-> {}]

\* manager.connect: the websocket is accepted and appended
Connect(websocket) ==
    /\ call.handler = "broadcast"
    /\ websocket \notin call.ever
    /\ call' = [call EXCEPT
                   !.active_connections = Append(@, websocket),
                   !.ever = @ \cup {websocket}]
    /\ UNCHANGED <<users, content, events, recommendation_logs, now>>

\* manager.disconnect, on WebSocketDisconnect in websocket_endpoint
Disconnect(websocket) ==
    /\ call.handler = "broadcast"
    /\ \E i \in 1..Len(call.active_connections) :
          call.active_connections[i] = websocket
    /\ call' = [call EXCEPT
                   !.active_connections = Remove(@, websocket),
                   !.steady = @ \ {websocket}]
    /\ UNCHANGED <<users, content, events, recommendation_logs, now>>

\* next() of the iterator over active_connections, then send_json on the
\* entry it yields; the loop ends when the index has reached the length
\* the list has at that time
LoopNext(c) ==
    IF c.index < Len(c.active_connections)
    THEN LET connection == c.active_connections[c.index + 1]
         IN [c EXCEPT !.pc = "send", !.index = @ + 1,
                      !.current = connection,
                      !.attempts[connection] = @ + 1]
    ELSE [c EXCEPT !.pc = "done", !.current = 0]

\* broadcast is called: the loop starts and runs to its first await
BroadcastStart ==
    /\ call.handler = "broadcast"
    /\ call.pc = "idle"
    /\ call' = LoopNext([call EXCEPT
                            !.steady = {call.active_connections[i] :
                                          i \in 1..Len(call.active_connections)}])
    /\ UNCHANGED <<users, content, events, recommendation_logs, now>>

\* the awaited send_json returns or raises (except: pass), and the loop
\* runs to its next await or to its end
BroadcastResume(raises) ==
    /\ call.handler = "broadcast"
    /\ call.pc = "send"
    /\ call' = LoopNext(IF raises
                        THEN [call EXCEPT !.raised = @ \cup {call.current}]
                        ELSE call)
    /\ UNCHANGED <<users, content, events, recommendation_logs, now>>

NextBroadcast ==
    \/ \E websocket \in ConnIds : Connect(websocket)
    \/ \E websocket \in ConnIds : Disconnect(websocket)
    \/ BroadcastStart
    \/ \E raises \in BOOLEAN : BroadcastResume(raises)

SpecBroadcast == InitBroadcast /\ [][NextBroadcast]_vars

-----------------------------------------------------------------------------
(* The gateway of src/api/main.py: GET /recommend/{user_id} and POST       *)
(* /events.  Both handlers are mocks that keep no state; call holds the    *)
(* request and its response.  Ids are strings, and a field declared UUID   *)
(* in schemas.py accepts the strings of UuidStrings only.                  *)

\* the strings of the model that parse as a UUID
UuidStrings ==
    {"550e8400-e29b-41d4-a716-446655440000",
     "550e8400-e29b-41d4-a716-446655440001"}

\* the id strings the requests carry
GatewayIds == UuidStrings \cup {"user_123"}

\* k must be between 1 and 100
GatewayMinK == 1
GatewayMaxK == 100

\* the values of k the requests carry
GatewayKInputs == (GatewayMinK - 2)..(GatewayMaxK + 2) \cup {2 * GatewayMaxK}

\* validation of a field declared UUID
IsUuid(text) == text \in UuidStrings

\* f"content_{i}"
MockContentId(i) == "content_" \o ToString(i)

\* the arguments of RecommendationItem(...) for index i; score in hundredths
MockItem(i) ==
    [content_id |-> MockContentId(i), score |-> 90 - i * 5,
     reason_tags |-> <<"popular", "similar_to_recent">>]

\* variant: only the upper limit is tested
KOutOfRangeUpperOnly(k) == k > GatewayMaxK

\* k < 1 or k > 100
KOutOfRange(k) == k < GatewayMinK \/ k > GatewayMaxK

\* variant: the types the seed of the full application draws from
GatewayEventTypesAsSeeded == EventTypes

\* allowed of EventCreate.validate_event_type
GatewayEventTypes == {"view", "complete", "like", "quiz_score"}

InitGateway ==
    /\ users = <<>>
    /\ content = <<>>
    /\ events = <<>>
    /\ recommendation_logs = <<>>
    /\ now = 0
    /\ call = NoCall

\* get_recommendations of the gateway: the range check, then the mock list
\* and the response are built inside the try; a model that fails its
\* validation raises, and the except turns that into 500
GatewayRecommend(user_id, k) ==
    /\ IF KOutOfRange(k)
       THEN call' = [handler |-> "gateway_recommend", pc |-> "done",
                     status |-> 400, user_id |-> user_id, k |-> k,
                     recommendations |-> <<>>]
       ELSE LET items == [i \in 1..k |-> MockItem(i - 1)]
            IN IF \/ \E i \in 1..k : ~IsUuid(items[i].content_id)
                  \/ ~IsUuid(user_id)
               THEN call' = [handler |-> "gateway_recommend", pc |-> "done",
                             status |-> 500, user_id |-> user_id, k |-> k,
                             recommendations |-> <<>>]
               ELSE call' = [handler |-> "gateway_recommend", pc |-> "done",
                             status |-> 200, user_id |-> user_id, k |-> k,
                             recommendations |-> items,
                             body |-> [user_id |-> user_id,
                                       recommendations |-> items,
                                       model_version |-> "v1.0.0-mock",
                                       latency_ms |-> 0]]
    /\ UNCHANGED <<users, content, events, recommendation_logs, now>>

\* ingest_event of the gateway: the body is validated as EventCreate before
\* the handler runs (422 on failure); the handler acknowledges with 202
GatewayIngest(user_id, content_id, event_type) ==
    /\ IF /\ IsUuid(user_id)
          /\ IsUuid(content_id)
          /\ event_type \in GatewayEventTypes
       THEN call' = [handler |-> "gateway_ingest", pc |-> "done",
                     status |-> 202, user_id |-> user_id,
                     content_id |-> content_id, event_type |-> event_type,
                     body |-> [status |-> "accepted",
                               message |-> "Event queued for processing",
                               event_id |-> "mock-event-id"]]
       ELSE call' = [handler |-> "gateway_ingest", pc |-> "done",
                     status |-> 422, user_id |-> user_id,
                     content_id |-> content_id, event_type |-> event_type,
                     body |-> [status |-> "rejected", message |-> "",
                               event_id |-> ""]]
    /\ UNCHANGED <<users, content, events, recommendation_logs, now>>

NextGateway ==
    \/ \E user_id \in GatewayIds, k \in GatewayKInputs :
          GatewayRecommend(user_id, k)
    \/ \E user_id \in GatewayIds, content_id \in GatewayIds,
          event_type \in IngestTypeInputs :
             GatewayIngest(user_id, content_id, event_type)

SpecGateway == InitGateway /\ [][NextGateway]_vars

-----------------------------------------------------------------------------
(* Properties *)

IsRecommend == call.handler = "get_recommendations"
IsIngest == call.handler = "log_event"

\* the call has committed its rows: it is suspended in the broadcast or has
\* returned its response.  Other requests may have run since it committed,
\* so the tables may hold more rows than the call saw.
Served == IsRecommend /\ call.status \in {0, 200}

\* the content the user of the call had a 'complete' event on at the time
\* of the request
CompletedBy(user_id) ==
    {c \in ContentIds : \E i \in 1..Len(call.events_read) :
        /\ call.events_read[i].user_id = user_id
        /\ call.events_read[i].content_id = c
        /\ call.events_read[i].event_type = "complete"}

\* C1: every score returned and every score in recommendation_logs lies in
\* [0, 1]
ScoreInUnitInterval ==
    /\ \A i \in 1..Len(recommendation_logs) :
          /\ recommendation_logs[i].score >= 0
          /\ recommendation_logs[i].score <= ScoreDen
    /\ Served => \A i \in 1..Len(call.top_recs) :
                    /\ call.top_recs[i].score >= 0
                    /\ call.top_recs[i].score <= ScoreDen

\* a response holds a score that the clamp brought down to 1.0, and it is
\* logged
WitnessScoreClamped ==
    /\ IsRecommend /\ call.status = 200
    /\ \E i \in 1..Len(call.top_recs) : call.top_recs[i].score = ScoreDen
    /\ \E i \in 1..Len(recommendation_logs) :
          recommendation_logs[i].score = ScoreDen

\* C2: no returned recommendation is content the user has completed; with
\* nothing completed every catalog item is a candidate; with everything
\* completed the list is empty
NoCompletedRecommended ==
    Served =>
       /\ \A i \in 1..Len(call.top_recs) :
             call.top_recs[i].content_id \notin CompletedBy(call.user_id)
       /\ CompletedBy(call.user_id) = {} =>
             {call.recommendations[i].content_id :
                i \in 1..Len(call.recommendations)} = ContentIds
       /\ CompletedBy(call.user_id) = ContentIds => call.top_recs = <<>>

\* a response for a user who has completed some content, but not all
WitnessCompletedSkipped ==
    /\ IsRecommend /\ call.status = 200
    /\ CompletedBy(call.user_id) # {}
    /\ call.top_recs # <<>>

\* C3: the number of recommendations is min(k, content not completed)
RecommendationCount ==
    Served =>
       LET eligible == Cardinality(ContentIds \ CompletedBy(call.user_id))
       IN Len(call.top_recs) = IF call.k <= eligible THEN call.k ELSE eligible

\* a response cut to k = 1 of two eligible candidates
WitnessTruncated ==
    /\ IsRecommend /\ call.status = 200
    /\ call.k = 1
    /\ Cardinality(ContentIds \ CompletedBy(call.user_id)) = 2
    /\ Len(call.top_recs) = 1

\* C4: the returned list is in non-increasing order of score, and no
\* candidate left out of it has a score above a returned one
RankedDescending ==
    Served =>
       /\ \A i, j \in 1..Len(call.top_recs) :
             i < j => call.top_recs[i].score >= call.top_recs[j].score
       /\ \A j \in 1..Len(call.recommendations) :
             (\A i \in 1..Len(call.top_recs) :
                 call.top_recs[i].content_id
                    # call.recommendations[j].content_id)
             => \A i \in 1..Len(call.top_recs) :
                   call.recommendations[j].score <= call.top_recs[i].score

\* a response of one item: the second content, which outscored the first
WitnessReordered ==
    /\ IsRecommend /\ call.status = 200
    /\ Len(call.top_recs) = 1
    /\ call.top_recs[1].content_id = 2
    /\ \E j \in 1..Len(call.recommendations) :
          /\ call.recommendations[j].content_id = 1
          /\ call.recommendations[j].score < call.top_recs[1].score

\* C5: once the call is past its commit (before the broadcast and when the
\* response is returned) the log holds exactly one row per returned item,
\* with its user_id, content_id and score: the rows the call appended to
\* the log_base rows it found, behind which only requests that ran after
\* its commit have written
WriteBeforeRespond ==
    Served =>
       /\ Len(recommendation_logs) >= call.log_base + Len(call.top_recs)
       /\ call.pc = "broadcast" =>
             Len(recommendation_logs) = call.log_base + Len(call.top_recs)
       /\ \A i \in 1..Len(call.top_recs) :
             LET row == recommendation_logs[call.log_base + i]
             IN /\ row.user_id = call.user_id
                /\ row.content_id = call.top_recs[i].content_id
                /\ row.score = call.top_recs[i].score

\* the call has committed two rows and has not yet broadcast or responded
WitnessLoggedBeforeBroadcast ==
    /\ IsRecommend /\ call.pc = "broadcast" /\ call.status = 0
    /\ Len(call.top_recs) = 2
    /\ Len(recommendation_logs) = 2

\* C6: a request that fails persists none of its rows, and a request that
\* reaches its commit persists all of them
LoggingAllOrNothing ==
    [][/\ (call'.handler = "get_recommendations" /\ call'.status \in {404, 500})
          => recommendation_logs' = recommendation_logs
       /\ (call'.handler = "get_recommendations" /\ call'.pc = "broadcast")
          => /\ Len(recommendation_logs')
                   = Len(recommendation_logs) + Len(call'.top_recs)
             /\ SubSeq(recommendation_logs', 1, Len(recommendation_logs))
                   = recommendation_logs
             /\ \A i \in 1..Len(call'.top_recs) :
                   LET row == recommendation_logs'[Len(recommendation_logs) + i]
                   IN /\ row.user_id = call'.user_id
                      /\ row.content_id = call'.top_recs[i].content_id
                      /\ row.score = call'.top_recs[i].score]_vars

\* a request failed at its second INSERT, after the first had succeeded
WitnessFailedMidLoop ==
    /\ IsRecommend /\ call.status = 500
    /\ call.insert_error = 2

\* C7: a request for a user_id that is not in users is answered 404, scores
\* nothing and changes no table
UnknownUserNotFound ==
    [][(call'.handler = "get_recommendations" /\ call'.user_id \notin DOMAIN users)
       => /\ call'.status = 404
          /\ call'.recommendations = <<>>
          /\ UNCHANGED <<users, content, events, recommendation_logs>>]_vars

\* a request for a missing user was answered 404 after an ingestion
WitnessUnknownUser ==
    /\ IsRecommend /\ call.status = 404
    /\ call.user_id \notin DOMAIN users
    /\ Len(events) >= 2

\* C8: an ingestion with a user_id or a content_id that does not exist is
\* answered 404 and changes no table
IngestMissingIdNotFound ==
    [][(/\ call'.handler = "log_event"
        /\ \/ call'.user_id \notin DOMAIN users
           \/ call'.content_id \notin DOMAIN content)
       => /\ call'.status = 404
          /\ UNCHANGED <<users, content, events, recommendation_logs>>]_vars

\* an ingestion of an existing user for a missing content was answered 404
WitnessMissingContent ==
    /\ IsIngest /\ call.status = 404
    /\ call.user_id \in DOMAIN users
    /\ call.content_id \notin DOMAIN content

\* C9: a successful ingestion appends one Event row with the request's
\* user_id, content_id and event_type, sets the user's last_active to the
\* row's timestamp and the content's popularity_score to 0.01 times the
\* number of Event rows of that content, the new one included
IngestEffect ==
    [][(call'.handler = "log_event" /\ call'.pc = "broadcast")
       => /\ Len(events') = Len(events) + 1
          /\ SubSeq(events', 1, Len(events)) = events
          /\ LET e == events'[Len(events')]
             IN /\ e.user_id = call'.user_id
                /\ e.content_id = call'.content_id
                /\ e.event_type = call'.event_type
                /\ users'[e.user_id].last_active = <<e.timestamp>>
                /\ content'[e.content_id].popularity_score =
                      Cardinality({i \in 1..Len(events') :
                                      events'[i].content_id = e.content_id})]_vars

\* an ingestion succeeded for a content that now has two events
WitnessSecondEvent ==
    /\ IsIngest /\ call.status = 200
    /\ content[call.content_id].popularity_score = 2
    /\ users[call.user_id].last_active = <<call.timestamp>>

\* C10: every Event row refers to an existing user and an existing content
EventReferentialIntegrity ==
    \A i \in 1..Len(events) :
       /\ events[i].user_id \in DOMAIN users
       /\ events[i].content_id \in DOMAIN content

\* the table holds a seeded and an ingested row, and an ingestion with a
\* missing id has just been refused
WitnessEventsAfterRefusal ==
    /\ Len(events) >= 2
    /\ IsIngest /\ call.status = 404

\* C11: every Event row has an event_type among view, complete, like,
\* quiz_score, bookmark and share: a request with any other event_type
\* writes no row
EventTypeInSet ==
    \A i \in 1..Len(events) : events[i].event_type \in EventTypes

\* C12: no step lowers the popularity_score of a content item
PopularityNeverDecreases ==
    [][\A c \in DOMAIN content :
          content'[c].popularity_score >= content[c].popularity_score]_vars

\* a pass of the scoring loop has run: call.scored holds its local variables
IsScored == call.handler = "score" /\ call.pc = "done"

\* C13: the reason tags of a candidate have at least 1 and at most 3
\* entries, and are exactly ["recommended_for_you"] when neither the tag
\* overlap nor the peer check produced a tag
ReasonTagsBounded ==
    IsScored =>
       /\ Len(call.scored.reason_tags) >= 1
       /\ Len(call.scored.reason_tags) <= 3
       /\ (call.scored.tag_overlap = 0 /\ ~call.scored.peer)
             => call.scored.reason_tags = <<"recommended_for_you">>

\* a candidate with no overlapping tag and no peer signal got the fallback
WitnessFallbackTag ==
    /\ IsScored
    /\ call.scored.tag_overlap = 0 /\ ~call.scored.peer
    /\ call.scored.reason_tags = <<"recommended_for_you">>

\* the scenario of C14: interests {python, cloud}, novice; tags {python, ai},
\* beginner, popularity 0.4, created today; strategy content_based
IsScenario ==
    /\ IsScored
    /\ users[call.user_id].interests = {"python", "cloud"}
    /\ users[call.user_id].skill_level = "novice"
    /\ content[call.scored.content_id].tags = {"python", "ai"}
    /\ content[call.scored.content_id].difficulty = "beginner"
    /\ content[call.scored.content_id].popularity_score = 40
    /\ call.scored.days_old = 0
    /\ call.scored.strategy = "content_based"

\* C14 as stated: in the scenario the final score lies in [0.36, 0.46]
ScenarioScoreAsStated ==
    IsScenario =>
       /\ 100 * call.scored.score >= 36 * ScoreDen
       /\ 100 * call.scored.score <= 46 * ScoreDen

\* C14: in the scenario the final score lies in [0.56, 0.66]: the
\* contributions 0.3, 0.2 and 0.06 sum to 0.56, the recency factor is 1 and
\* the jitter adds at most 0.1
ScenarioScoreRange ==
    IsScenario =>
       /\ 100 * call.scored.score >= 56 * ScoreDen
       /\ 100 * call.scored.score <= 66 * ScoreDen

\* the scenario was scored with the largest jitter of the model
WitnessScenarioScored ==
    /\ IsScenario
    /\ call.scored.raw = 5600
    /\ call.scored.jitter = 999

\* the event rows of a user
EventsOf(user_id) == {i \in 1..Len(events) : events[i].user_id = user_id}

\* C15: for a user with zero events the peer set is empty, and the score
\* and reason tags under hybrid are those under content_based for the same
\* jitter
ZeroEventsHybridIsContentBased ==
    (IsScored /\ EventsOf(call.user_id) = {}) =>
       /\ \A tie \in TieOrders :
             SimilarUsersBy(events, call.user_id, tie) = <<>>
       /\ call.scored.strategy = "hybrid" =>
             LET cb == Scored(users[call.user_id], call.user_id,
                              call.scored.content_id, "content_based",
                              content, events, now,
                              call.scored.jitter, call.scored.ord,
                              call.scored.tie)
             IN /\ ~call.scored.peer
                /\ call.scored.score = cb.score
                /\ call.scored.reason_tags = cb.reason_tags

\* a user with no events was scored under hybrid while another user has a
\* like on the candidate
WitnessZeroEventsHybrid ==
    /\ IsScored
    /\ EventsOf(call.user_id) = {}
    /\ call.scored.strategy = "hybrid"
    /\ \E i \in 1..Len(events) :
          /\ events[i].content_id = call.scored.content_id
          /\ events[i].event_type = "like"

\* C16: the score after the recency step is at least half the sum of the
\* contributions before it, and the factor is max(0.5, 1 - days_old/365)
RecencyFloor ==
    IsScored =>
       /\ 2 * call.scored.decayed >= call.scored.raw * 2 * YearDays
       /\ call.scored.recency_factor =
             IF 2 * (YearDays - call.scored.days_old) >= YearDays
             THEN 2 * (YearDays - call.scored.days_old)
             ELSE YearDays
       /\ call.scored.decayed = call.scored.raw * call.scored.recency_factor

\* a candidate created 1000 days ago kept exactly half of a positive sum
WitnessOldContentHalved ==
    /\ IsScored
    /\ call.scored.days_old = 1000
    /\ call.scored.raw > 0
    /\ 2 * call.scored.decayed = call.scored.raw * 2 * YearDays

\* the lookup table of the design, in tenths
DifficultyTable ==
    [novice |-> [beginner |-> 10, intermediate |-> 5, advanced |-> 2],
     intermediate |-> [beginner |-> 5, intermediate |-> 10, advanced |-> 7],
     expert |-> [beginner |-> 3, intermediate |-> 7, advanced |-> 10]]

\* C17: the difficulty factor is the table's entry for every skill_level
\* and difficulty of the table, and 0.5 for a skill_level outside it
DifficultyFactorIsTable ==
    IsScored =>
       LET skill == users[call.user_id].skill_level
           difficulty == content[call.scored.content_id].difficulty
       IN call.scored.difficulty_match =
             IF skill \in DOMAIN DifficultyTable
             THEN DifficultyTable[skill][difficulty]
             ELSE 5

\* a user whose skill_level is outside the table was scored with 0.5
WitnessUnknownSkill ==
    /\ IsScored
    /\ users[call.user_id].skill_level \notin {"novice", "intermediate", "expert"}
    /\ call.scored.difficulty_match = 5

IsGatewayRecommend == call.handler = "gateway_recommend"
IsGatewayIngest == call.handler = "gateway_ingest"

\* C18: on the gateway a recommendation request with k in 1..100 is
\* answered 200 with the request's user_id, a model_version, a latency_ms
\* and exactly k recommendations
GatewayRecommendServed ==
    (IsGatewayRecommend /\ call.k >= 1 /\ call.k <= 100) =>
       /\ call.status = 200
       /\ call.body.user_id = call.user_id
       /\ Len(call.body.recommendations) = call.k
       /\ call.body.model_version # ""
       /\ call.body.latency_ms >= 0

\* C19: on the gateway a recommendation request with k < 1 or k > 100 is
\* answered 400 and no recommendation is generated
GatewayInvalidKRejected ==
    (IsGatewayRecommend /\ (call.k < 1 \/ call.k > 100)) =>
       /\ call.status = 400
       /\ call.recommendations = <<>>

\* a request with k = 0 was answered 400
WitnessKBelowRange ==
    /\ IsGatewayRecommend
    /\ call.k = 0
    /\ call.status = 400

\* C20: on the gateway an event with well-formed ids is accepted (202, body
\* status "accepted") if its event_type is view, complete, like or
\* quiz_score, and an event of any other event_type is rejected with 422
GatewayIngestValidated ==
    IsGatewayIngest =>
       /\ (/\ call.event_type \in {"view", "complete", "like", "quiz_score"}
           /\ IsUuid(call.user_id) /\ IsUuid(call.content_id))
          => (call.status = 202 /\ call.body.status = "accepted")
       /\ call.event_type \notin {"view", "complete", "like", "quiz_score"}
          => call.status = 422

\* a bookmark event with well-formed ids was rejected
WitnessBookmarkRejected ==
    /\ IsGatewayIngest
    /\ call.event_type = "bookmark"
    /\ IsUuid(call.user_id) /\ IsUuid(call.content_id)
    /\ call.status = 422

\* the part of the sum before the recency step that the tag overlap added
TagContribution ==
    call.scored.raw
    - call.scored.difficulty_match * DifficultyWeight
    - content[call.scored.content_id].popularity_score * PopularityWeight
    - (IF call.scored.peer THEN PeerBoost ELSE 0)

\* the reason tags the tag-overlap step recorded
OverlapReasons ==
    SelectSeq(call.scored.reason_tags,
              LAMBDA t : t \notin {"popular_with_similar_users",
                                   "recommended_for_you"})

\* the tags the user's interests and the content share
Overlap ==
    users[call.user_id].interests \cap content[call.scored.content_id].tags

\* C21: the tag-overlap contribution is min(overlap_count, N) * 0.3 for the
\* fixed cap N = MaxTags, the most tags a content row holds; the step
\* records at most 2 reason tags, each a member of the interests and of the
\* content's tags
TagContributionCapped ==
    IsScored =>
       /\ TagContribution = Min(Cardinality(Overlap), MaxTags) * TagWeight
       /\ Len(OverlapReasons) <= 2
       /\ \A i \in 1..Len(OverlapReasons) : OverlapReasons[i] \in Overlap

\* a candidate with three overlapping tags got 0.9 from the step and two
\* reason tags
WitnessThreeTagsOverlap ==
    /\ IsScored
    /\ Cardinality(Overlap) = 3
    /\ TagContribution = 3 * TagWeight
    /\ Len(OverlapReasons) = 2

\* C22: under content_based no candidate gets the peer contribution or the
\* peer tag; under collaborative and under hybrid the score and the reason
\* tags are the same for the same data and jitter
StrategyGating ==
    IsScored =>
       /\ call.scored.strategy = "content_based" =>
             /\ ~call.scored.peer
             /\ call.scored.raw =
                   Cardinality(Overlap) * TagWeight
                   + call.scored.difficulty_match * DifficultyWeight
                   + content[call.scored.content_id].popularity_score
                        * PopularityWeight
             /\ \A i \in 1..Len(call.scored.reason_tags) :
                   call.scored.reason_tags[i] # "popular_with_similar_users"
       /\ call.scored.strategy = "collaborative" =>
             LET hy == Scored(users[call.user_id], call.user_id,
                              call.scored.content_id, "hybrid",
                              content, events, now,
                              call.scored.jitter, call.scored.ord,
                              call.scored.tie)
             IN /\ call.scored.score = hy.score
                /\ call.scored.reason_tags = hy.reason_tags

\* a candidate that a peer of the user has liked was scored under
\* content_based
WitnessContentBasedWithPeer ==
    /\ IsScored
    /\ call.scored.strategy = "content_based"
    /\ SimilarUsersBy(events, call.user_id, call.scored.tie) # <<>>
    /\ \E i \in 1..Len(events) :
          /\ events[i].user_id # call.user_id
          /\ events[i].content_id = call.scored.content_id
          /\ events[i].event_type = "like"

\* the top peers of the user that have a like or complete on the candidate
MatchingPeers ==
    LET similar_users == SimilarUsersBy(events, call.user_id, call.scored.tie)
    IN {v \in {similar_users[i] : i \in 1..Len(similar_users)} :
          \E j \in 1..Len(events) :
             /\ events[j].user_id = v
             /\ events[j].content_id = call.scored.content_id
             /\ events[j].event_type \in {"like", "complete"}}

\* the number of times the peer tag is in the reason tags
PeerTagCount ==
    Cardinality({i \in 1..Len(call.scored.reason_tags) :
                    call.scored.reason_tags[i] = "popular_with_similar_users"})

\* C23: under collaborative or hybrid a candidate gets the peer contribution
\* iff one of the user's top peers has a like or complete on it; the
\* contribution is 0.2 once and the tag is appended once, however many
\* peers match
PeerAffinityOnce ==
    (IsScored /\ call.scored.strategy \in {"collaborative", "hybrid"}) =>
       /\ call.scored.peer <=> MatchingPeers # {}
       /\ call.scored.raw
             - Cardinality(Overlap) * TagWeight
             - call.scored.difficulty_match * DifficultyWeight
             - content[call.scored.content_id].popularity_score
                  * PopularityWeight
          = IF MatchingPeers # {} THEN PeerBoost ELSE 0
       /\ PeerTagCount = IF MatchingPeers # {} THEN 1 ELSE 0

\* two peers have completed the candidate and it got 0.2 and one tag
WitnessTwoPeersMatch ==
    /\ IsScored
    /\ call.scored.strategy = "hybrid"
    /\ Cardinality(MatchingPeers) = 2
    /\ call.scored.peer
    /\ PeerTagCount = 1

\* C29: the recency factor lies in [0.5, 1.0], also for content whose
\* created_at is later than the request time
RecencyFactorInRange ==
    IsScored =>
       /\ call.scored.recency_factor >= YearDays
       /\ call.scored.recency_factor <= 2 * YearDays

IsPeers == call.handler = "peers" /\ call.pc \in {"again", "done"}

\* the users of a peer list
PeerSet == {call.similar_users[i] : i \in 1..Len(call.similar_users)}

\* the number of pairs of a row of the user and a row of v on one content
CoOccurrence(v) ==
    Cardinality({p \in (1..Len(events)) \X (1..Len(events)) :
                    /\ events[p[1]].user_id = call.user_id
                    /\ events[p[2]].user_id = v
                    /\ events[p[1]].content_id = events[p[2]].content_id})

\* C24: the peer list holds at most 10 users, each once, never the user,
\* only users with an event on a content the user has an event on, in
\* non-increasing order of co-occurrence count, and no user left out has a
\* count above that of a user in the list
PeerSetContract ==
    IsPeers =>
       /\ Len(call.similar_users) <= 10
       /\ Cardinality(PeerSet) = Len(call.similar_users)
       /\ call.user_id \notin PeerSet
       /\ \A v \in PeerSet : CoOccurrence(v) > 0
       /\ \A i, j \in 1..Len(call.similar_users) :
             i < j => CoOccurrence(call.similar_users[i])
                         >= CoOccurrence(call.similar_users[j])
       /\ \A w \in (DOMAIN users \ PeerSet) \ {call.user_id} :
             \A v \in PeerSet : CoOccurrence(w) <= CoOccurrence(v)

\* the list is cut at 10 peers and leaves out a user who shares a content
WitnessPeerListCut ==
    /\ IsPeers
    /\ Len(call.similar_users) = 10
    /\ \E w \in (DOMAIN users \ PeerSet) \ {call.user_id} : CoOccurrence(w) > 0

\* v comes before w in the order the database returns tied groups in
TieBefore(v, w) ==
    /\ v # w
    /\ IF call.tie = "ascending" THEN UserIdLeq(v, w) ELSE UserIdLeq(w, v)

\* v ranks before w: more co-occurrences, or as many and first in the order
\* of the ties
RanksBefore(v, w) ==
    \/ CoOccurrence(v) > CoOccurrence(w)
    \/ CoOccurrence(v) = CoOccurrence(w) /\ TieBefore(v, w)

IsPair == call.handler = "log_event_pair"

\* the requests whose transaction is committed
CommittedRequests ==
    {r \in Requests : /\ call.reqs[r].pc \in {"broadcast", "done"}
                      /\ call.reqs[r].status \notin {404, 500}}

\* some content that a committed request has ingested an event for has a
\* popularity_score other than 0.01 times the number of its Event rows
LostUpdate ==
    \E r \in CommittedRequests :
       content[call.reqs[r].content_id].popularity_score
          # Cardinality({i \in 1..Len(events) :
                           events[i].content_id = call.reqs[r].content_id})

\* C26 as stated: two concurrent log_event requests reach an end with a
\* lost update of popularity_score
LostUpdateReached ==
    <>(/\ IsPair
       /\ \A r \in Requests : call.reqs[r].pc = "done"
       /\ LostUpdate)

\* C26: whenever no transaction is open, the popularity_score of every
\* content a committed request has ingested an event for is 0.01 times the
\* number of Event rows of that content: no interleaving of two log_event
\* requests loses an update
NoLostUpdate ==
    (IsPair /\ call.lock = 0) => ~LostUpdate

\* both requests have committed an event for the same content and are
\* suspended in the broadcast
WitnessBothCommitted ==
    /\ IsPair
    /\ \A r \in Requests : call.reqs[r].pc = "broadcast"
    /\ call.reqs[1].content_id = call.reqs[2].content_id
    /\ content[call.reqs[1].content_id].popularity_score = Len(events)

\* C30: when the broadcast has ended, every connection that was in
\* active_connections for its whole duration has been sent the message
\* exactly once, whatever connected or disconnected meanwhile; and a send
\* that raised removed no connection and did not end the loop early
BroadcastExactlyOnce ==
    (call.handler = "broadcast" /\ call.pc = "done") =>
       /\ \A c \in call.steady : call.attempts[c] = 1
       /\ \A c \in call.raised \cap call.steady :
             \E i \in 1..Len(call.active_connections) :
                call.active_connections[i] = c

\* C27: a step of a recommendation request leaves every user row, every
\* content row and every Event row as it was and only appends to
\* recommendation_logs: the rows the log held are still there, in place and
\* unmodified, clicked included
RecommendChangesOnlyLog ==
    [][call'.handler = "get_recommendations" =>
          /\ users' = users
          /\ content' = content
          /\ events' = events
          /\ Len(recommendation_logs') >= Len(recommendation_logs)
          /\ SubSeq(recommendation_logs', 1, Len(recommendation_logs))
                = recommendation_logs]_vars

\* a request has appended rows to a log that held rows, on tables that hold
\* an event and a last_active
WitnessSecondRequestLogged ==
    /\ call.handler = "get_recommendations"
    /\ call.pc = "broadcast"
    /\ call.log_base > 0
    /\ Len(recommendation_logs) > call.log_base
    /\ Len(events) > 0
    /\ \E u \in DOMAIN users : users[u].last_active # NULL

\* C28: a successful log_event for user u and content c appends one Event
\* row and leaves the earlier Event rows, the popularity_score of every
\* content other than c, the last_active of every user other than u and
\* every recommendation_logs row as they were
IngestAppendOnlyLocal ==
    [][(call'.handler = "log_event" /\ call'.pc = "broadcast") =>
          /\ Len(events') = Len(events) + 1
          /\ SubSeq(events', 1, Len(events)) = events
          /\ \A c \in DOMAIN content \ {call'.content_id} :
                content'[c].popularity_score = content[c].popularity_score
          /\ \A u \in DOMAIN users \ {call'.user_id} :
                users'[u].last_active = users[u].last_active
          /\ recommendation_logs' = recommendation_logs]_vars

\* an event is ingested while the log holds rows, another user has a
\* last_active and another content exists
WitnessIngestBesideOthers ==
    /\ call.handler = "log_event"
    /\ call.pc = "broadcast"
    /\ Len(recommendation_logs) > 0
    /\ Len(events) > 1
    /\ \E u \in DOMAIN users \ {call.user_id} : users[u].last_active # NULL
    /\ DOMAIN content \ {call.content_id} # {}

====
